---- MODULE Spec2Model ----
(***************************************************************************)
(* Model of the Riot champion-rotation Cloud Functions:                    *)
(*   - the scheduled job checkChampionRotation (fetch, sign, compare with  *)
(*     the Firestore document riot/rotation, write, publish to FCM);       *)
(*   - the helper fetchRiotRotation and the callable proxy                 *)
(*     championRotation built on it;                                       *)
(*   - the legacy HTTP proxy championRotation of functions/index.js.       *)
(***************************************************************************)
EXTENDS Integers, Sequences, FiniteSets, TLC

(* ----------------------------- bounds ---------------------------------- *)

\* Number of scheduled invocations in one behaviour.
MaxRuns == 2

\* The champion ids the upstream draws from.  9 and 10 are both there, so that
\* numeric order (9 < 10) and text order ("10" < "9") disagree.
ChampionIds == {9, 10}

(* --------------------------- JS values --------------------------------- *)

JsNull == [type |-> "null"]

JsUndefined == [type |-> "undefined"]

JsString(s) == [type |-> "string", value |-> s]

JsArray(items) == [type |-> "array", items |-> items]

\* Array.isArray(v)
IsArray(v) == v.type = "array"

\* a === b on the values above
StrictEquals(a, b) == a = b

(* ------------------------ upstream payloads ---------------------------- *)

RECURSIVE Arrangements(_)
\* Every sequence of distinct elements of S, in every order.
Arrangements(S) ==
  {<<>>} \cup UNION {{<<c>> \o s : s \in Arrangements(S \ {c})} : c \in S}

\* The freeChampionIds lists the upstream can return.
IdLists == Arrangements(ChampionIds)

\* A JSON object body: freeChampionIds is an array of integers or is missing.
ObjectPayloads ==
  {[type |-> "object", freeChampionIds |-> JsArray(s)] : s \in IdLists}
    \cup {[type |-> "object", freeChampionIds |-> JsUndefined]}

\* What response.json() can resolve to on a 2xx response: an object, or the
\* JSON literal null.
Payloads == ObjectPayloads \cup {JsNull}

(* --------------------- signature computation --------------------------- *)

RECURSIVE InsertSorted(_, _)
\* Insert x into the ascending sequence s, comparing with (a, b) => a - b.
InsertSorted(x, s) ==
  IF s = <<>> THEN <<x>>
  ELSE IF x - Head(s) <= 0 THEN <<x>> \o s
  ELSE <<Head(s)>> \o InsertSorted(x, Tail(s))

RECURSIVE SortAscending(_)
\* ids.sort((a, b) => a - b)
SortAscending(s) ==
  IF s = <<>> THEN <<>> ELSE InsertSorted(Head(s), SortAscending(Tail(s)))

RECURSIVE Join(_)
\* ids.join(","): decimal text of each element, separated by commas.
Join(s) ==
  IF s = <<>> THEN ""
  ELSE IF Len(s) = 1 THEN ToString(s[1])
  ELSE ToString(s[1]) \o "," \o Join(Tail(s))

\* Array.isArray(payload.freeChampionIds) ? payload.freeChampionIds.slice() : []
ExtractIds(p) ==
  IF IsArray(p.freeChampionIds) THEN p.freeChampionIds.items ELSE <<>>

\* The id list joined in the order the upstream gave it.
UnsortedIds(p) == ExtractIds(p)

\* The sorted copy of the id list.
SortedIds(p) == SortAscending(ExtractIds(p))

\* const signature = ids.join(",")
ComputeSignature(p) == JsString(Join(SortedIds(p)))

(* ----------------------- fetchRiotRotation ----------------------------- *)

\* error.upstreamMessage is cut to this many characters.
UpstreamMessageLimit == 2000

\* A string of which only the length matters.
Text(n) == [type |-> "string", length |-> n]

\* !!v for undefined, null and strings.
Truthy(v) == v.type = "string" /\ v.length > 0

\* a || b
OrElse(a, b) == IF Truthy(a) THEN a ELSE b

\* s.slice(0, n)
Slice(s, n) == Text(IF s.length <= n THEN s.length ELSE n)

\* Lengths around the limit.
TextLengths == {0, UpstreamMessageLimit, UpstreamMessageLimit + 1}

MaybeText == {JsUndefined} \cup {Text(n) : n \in TextLengths}

\* The four rate-limit headers, each null when the header is missing.
RateInfos ==
  {[app |-> JsNull, appCount |-> JsNull, method |-> JsNull, methodCount |-> JsNull],
   [app |-> JsString("20:1"), appCount |-> JsString("1:1"),
    method |-> JsString("30:10"), methodCount |-> JsString("1:10")]}

\* Bodies of a non-2xx response: text that is no JSON, the JSON literal null,
\* or a JSON object with an optional status.message, an optional message and
\* `rest` characters of other members.
ErrorBodies ==
  {[json |-> "invalid", length |-> n] : n \in TextLengths}
    \cup {[json |-> "null", length |-> 4]}
    \cup {[json |-> "object", statusMessage |-> sm, message |-> m, rest |-> r] :
            sm \in MaybeText, m \in MaybeText, r \in {0, UpstreamMessageLimit + 500}}

\* Bodies of a 2xx response: a payload, or text response.json() rejects.
OkBodies == {[json |-> "value", value |-> p] : p \in Payloads}
              \cup {[json |-> "invalid", length |-> 0]}

ErrorStatuses == {304, 400, 401, 403, 404, 429, 500, 503}

OkStatuses == {200, 204}

\* response.ok
IsOk(status) == 200 <= status /\ status <= 299

\* What `await fetch(url, ...)` ends with: a response, or a rejection when the
\* request never completes.
Responses ==
  {[completed |-> FALSE]}
    \cup {[completed |-> TRUE, status |-> s, rateInfo |-> ri, body |-> b] :
            s \in ErrorStatuses, ri \in RateInfos, b \in ErrorBodies}
    \cup {[completed |-> TRUE, status |-> s, rateInfo |-> ri, body |-> b] :
            s \in OkStatuses, ri \in RateInfos, b \in OkBodies}

\* JSON.stringify(parsed).length for an object body.
StringifyLength(b) ==
  2 + (IF b.statusMessage.type = "string" THEN 23 + b.statusMessage.length ELSE 0)
    + (IF b.statusMessage.type = "string" /\ b.message.type = "string" THEN 1 ELSE 0)
    + (IF b.message.type = "string" THEN 12 + b.message.length ELSE 0)
    + b.rest

\* (parsed.status && parsed.status.message) || parsed.message ||
\*   JSON.stringify(parsed).slice(0, 2000)
MessageOfParsed(b) ==
  OrElse(b.statusMessage,
         OrElse(b.message,
                Slice(Text(StringifyLength(b)), UpstreamMessageLimit)))

\* The try/catch around JSON.parse(errorBody): a body that does not parse, or
\* parses to null (parsed.status throws), gives errorBody.slice(0, 2000).
ExtractUpstreamMessage(b) ==
  IF b.json = "object"
  THEN MessageOfParsed(b)
  ELSE Slice(Text(b.length), UpstreamMessageLimit)

\* fetchRiotRotation(riotApiKey), given what fetch ends with: returns
\* {payload, rateInfo} or throws an error that carries status, rateInfo and
\* upstreamMessage (non-2xx) or none of them (rejected fetch, rejected json()).
FetchRiotRotation(resp) ==
  IF ~resp.completed
  THEN [threw |-> TRUE]
  ELSE IF ~IsOk(resp.status)
  THEN [threw |-> TRUE, status |-> resp.status, rateInfo |-> resp.rateInfo,
        upstreamMessage |-> ExtractUpstreamMessage(resp.body)]
  ELSE IF resp.body.json = "invalid"
  THEN [threw |-> TRUE]
  ELSE [threw |-> FALSE, payload |-> resp.body.value, rateInfo |-> resp.rateInfo]

\* Everything fetchRiotRotation can end with.
FetchOutcomes == {FetchRiotRotation(resp) : resp \in Responses}

\* The errors it throws, told apart by whether they carry a status.
ThrownKinds ==
  {IF "status" \in DOMAIN r THEN "http-error" ELSE "network-error" :
     r \in {o \in FetchOutcomes : o.threw}}

\* The payloads it returns.
ReturnedPayloads == {r.payload : r \in {o \in FetchOutcomes : ~o.threw}}

(* ------------------------- the document -------------------------------- *)

NoDocument == [exists |-> FALSE]

\* admin.firestore.FieldValue.serverTimestamp(): the server fills in its time.
ServerTimestamp == [type |-> "serverTimestamp"]

\* The record with freeChampionIds taken from the payload as it came.
RotationRecordRawIds(sig, sortedIds, p, now) ==
  [exists |-> TRUE,
   signature |-> sig,
   freeChampionIds |-> ExtractIds(p),
   rawResponse |-> p,
   updatedAt |-> now]

\* The object passed to docRef.set(...)
RotationRecord(sig, sortedIds, p, now) ==
  [exists |-> TRUE,
   signature |-> sig,
   freeChampionIds |-> sortedIds,
   rawResponse |-> p,
   updatedAt |-> now]

\* docRef.set(data) without merge options: the document becomes data.
SetDocument(old, data) == data

\* snapshot.exists ? snapshot.signature : null, which reads no stored field.
PrevSignatureWithoutData(snapshot) ==
  IF snapshot.exists THEN JsUndefined ELSE JsNull

\* snapshot.exists ? snapshot.data().signature : null
PrevSignatureOf(snapshot) ==
  IF snapshot.exists THEN snapshot.signature ELSE JsNull

(* --------------------------- the state --------------------------------- *)

VARIABLES
  store,          \* the Firestore document riot/rotation
  pc,             \* where each scheduled invocation stands
  payload,        \* its fetched payload
  ids,            \* its sorted id list
  signature,      \* its computed signature
  prevSignature,  \* the signature it read from the store
  fetched,        \* how its upstream fetch ended
  logged,         \* the last message it logged
  tally,          \* its store reads, set calls and FCM sends so far
  sent,           \* FCM messages accepted for the topic, in all
  reply           \* what the last proxy request was answered with

schedVars == <<store, pc, payload, ids, signature, prevSignature,
               fetched, logged, tally, sent>>

vars == <<store, pc, payload, ids, signature, prevSignature,
          fetched, logged, tally, sent, reply>>

Runs == 1 .. MaxRuns

NoTally == [reads |-> 0, sets |-> 0, setsOk |-> 0, sends |-> 0, sendsOk |-> 0]

\* Documents an earlier deployment of the job can have left behind.
EarlierDocuments ==
  {RotationRecord(ComputeSignature(p), SortedIds(p), p, ServerTimestamp) :
     p \in ObjectPayloads}

\* No proxy request has been made yet.
NoReply ==
  [handler |-> "none", phase |-> "answered",
   upstream |-> JsUndefined, answer |-> JsUndefined]

Init ==
  /\ store \in {NoDocument} \cup EarlierDocuments
  /\ pc = [i \in Runs |-> "idle"]
  /\ payload = [i \in Runs |-> JsUndefined]
  /\ ids = [i \in Runs |-> <<>>]
  /\ signature = [i \in Runs |-> JsUndefined]
  /\ prevSignature = [i \in Runs |-> JsUndefined]
  /\ fetched = [i \in Runs |-> "pending"]
  /\ logged = [i \in Runs |-> "none"]
  /\ tally = [i \in Runs |-> NoTally]
  /\ sent = 0
  /\ reply = NoReply

(* ---------------------- the scheduled job ------------------------------ *)

\* Invocations are numbered in the order the scheduler fires them.
MayStart(i) == pc[i] = "idle" /\ \A j \in Runs : j < i => pc[j] # "idle"

\* The handler starts and resolveRiotApiKey() yields a key: the fetch is
\* issued.
StartRun(i) ==
  /\ MayStart(i)
  /\ pc' = [pc EXCEPT ![i] = "fetch"]
  /\ logged' = [logged EXCEPT ![i] = "running"]
  /\ UNCHANGED <<store, payload, ids, signature, prevSignature,
                 fetched, tally, sent, reply>>

\* The handler starts and no key is configured: log and return.
StartRunNoKey(i) ==
  /\ MayStart(i)
  /\ pc' = [pc EXCEPT ![i] = "done"]
  /\ logged' = [logged EXCEPT ![i] = "no-key"]
  /\ UNCHANGED <<store, payload, ids, signature, prevSignature,
                 fetched, tally, sent, reply>>

\* The catch block of the handler: log the error and return.
Abandon(i, how) ==
  /\ pc' = [pc EXCEPT ![i] = "done"]
  /\ logged' = [logged EXCEPT ![i] = "error"]
  /\ fetched' = [fetched EXCEPT ![i] = how]

\* A failed fetch taken for an empty rotation: the run goes on to the read.
FetchFailsThenContinues(i) ==
  /\ pc[i] = "fetch"
  /\ \E how \in ThrownKinds : fetched' = [fetched EXCEPT ![i] = how]
  /\ payload' = [payload EXCEPT ![i] =
                   [type |-> "object", freeChampionIds |-> JsUndefined]]
  /\ ids' = [ids EXCEPT ![i] = <<>>]
  /\ signature' = [signature EXCEPT ![i] = JsString("")]
  /\ pc' = [pc EXCEPT ![i] = "read"]
  /\ UNCHANGED <<store, prevSignature, logged, tally, sent, reply>>

\* fetchRiotRotation throws (non-2xx status, or the request or json() is
\* rejected): the catch block logs, the run ends.
FetchFails(i) ==
  /\ pc[i] = "fetch"
  /\ \E how \in ThrownKinds : Abandon(i, how)
  /\ UNCHANGED <<store, payload, ids, signature, prevSignature,
                 tally, sent, reply>>

\* fetchRiotRotation returns the payload; the ids are copied, sorted and
\* joined, and docRef.get() is issued.  payload.freeChampionIds on a null
\* payload throws a TypeError, which the catch block logs.
FetchSucceeds(i) ==
  /\ pc[i] = "fetch"
  /\ \E p \in ReturnedPayloads :
       /\ payload' = [payload EXCEPT ![i] = p]
       /\ IF p = JsNull
          THEN /\ Abandon(i, "ok")
               /\ UNCHANGED <<ids, signature>>
          ELSE /\ ids' = [ids EXCEPT ![i] = SortedIds(p)]
               /\ signature' = [signature EXCEPT ![i] = ComputeSignature(p)]
               /\ pc' = [pc EXCEPT ![i] = "read"]
               /\ fetched' = [fetched EXCEPT ![i] = "ok"]
               /\ UNCHANGED logged
  /\ UNCHANGED <<store, prevSignature, tally, sent, reply>>

\* docRef.get() rejects.
ReadFails(i) ==
  /\ pc[i] = "read"
  /\ Abandon(i, "ok")
  /\ UNCHANGED <<store, payload, ids, signature, prevSignature,
                 tally, sent, reply>>

\* (prev || "") === sig: a missing document compared as the empty signature.
UnchangedWithNullAsEmpty(prev, sig) ==
  StrictEquals(IF prev = JsNull THEN JsString("") ELSE prev, sig)

\* The decision taken on the signature read from the store.
Unchanged(prev, sig) == StrictEquals(prev, sig)

\* docRef.get() resolves: compare; return when unchanged, else issue
\* docRef.set(...).
ReadAndCompare(i) ==
  /\ pc[i] = "read"
  /\ LET prev == PrevSignatureOf(store) IN
       /\ prevSignature' = [prevSignature EXCEPT ![i] = prev]
       /\ tally' = [tally EXCEPT ![i].reads = @ + 1]
       /\ IF Unchanged(prev, signature[i])
          THEN /\ pc' = [pc EXCEPT ![i] = "done"]
               /\ logged' = [logged EXCEPT ![i] = "unchanged"]
          ELSE /\ pc' = [pc EXCEPT ![i] = "write"]
               /\ UNCHANGED logged
  /\ UNCHANGED <<store, payload, ids, signature, fetched, sent, reply>>

\* A rejected set call that is swallowed: the run goes on to send.
WriteFailsThenPublishes(i) ==
  /\ pc[i] = "write"
  /\ tally' = [tally EXCEPT ![i].sets = @ + 1]
  /\ pc' = [pc EXCEPT ![i] = "publish"]
  /\ UNCHANGED <<store, payload, ids, signature, prevSignature, fetched,
                 logged, sent, reply>>

\* docRef.set(...) rejects: the catch block logs, nothing is sent.
WriteFails(i) ==
  /\ pc[i] = "write"
  /\ tally' = [tally EXCEPT ![i].sets = @ + 1]
  /\ Abandon(i, "ok")
  /\ UNCHANGED <<store, payload, ids, signature, prevSignature,
                 sent, reply>>

\* The write as a transaction on the signature read: it lands only when the
\* document still holds that signature, else the run ends as unchanged.
WriteIfStillStale(i) ==
  /\ pc[i] = "write"
  /\ IF PrevSignatureOf(store) = prevSignature[i]
     THEN /\ store' = RotationRecord(signature[i], ids[i], payload[i],
                                     ServerTimestamp)
          /\ tally' = [tally EXCEPT ![i].sets = @ + 1, ![i].setsOk = @ + 1]
          /\ pc' = [pc EXCEPT ![i] = "publish"]
          /\ logged' = [logged EXCEPT ![i] = "saved"]
     ELSE /\ pc' = [pc EXCEPT ![i] = "done"]
          /\ logged' = [logged EXCEPT ![i] = "unchanged"]
          /\ UNCHANGED <<store, tally>>
  /\ UNCHANGED <<payload, ids, signature, prevSignature, fetched, sent, reply>>

\* docRef.set(...) resolves: the document is replaced, messaging.send is
\* issued.
WriteSucceeds(i) ==
  /\ pc[i] = "write"
  /\ store' = SetDocument(store,
                RotationRecord(signature[i], ids[i], payload[i], ServerTimestamp))
  /\ tally' = [tally EXCEPT ![i].sets = @ + 1, ![i].setsOk = @ + 1]
  /\ pc' = [pc EXCEPT ![i] = "publish"]
  /\ logged' = [logged EXCEPT ![i] = "saved"]
  /\ UNCHANGED <<payload, ids, signature, prevSignature, fetched, sent, reply>>

\* A rejected send that takes the written document back.
PublishFailsThenDeletes(i) ==
  /\ pc[i] = "publish"
  /\ tally' = [tally EXCEPT ![i].sends = @ + 1]
  /\ store' = NoDocument
  /\ Abandon(i, "ok")
  /\ UNCHANGED <<payload, ids, signature, prevSignature, sent, reply>>

\* messaging.send(message) rejects: the catch block logs.
PublishFails(i) ==
  /\ pc[i] = "publish"
  /\ tally' = [tally EXCEPT ![i].sends = @ + 1]
  /\ Abandon(i, "ok")
  /\ UNCHANGED <<store, payload, ids, signature, prevSignature,
                 sent, reply>>

\* messaging.send(message) resolves.
PublishSucceeds(i) ==
  /\ pc[i] = "publish"
  /\ tally' = [tally EXCEPT ![i].sends = @ + 1, ![i].sendsOk = @ + 1]
  /\ sent' = sent + 1
  /\ pc' = [pc EXCEPT ![i] = "done"]
  /\ logged' = [logged EXCEPT ![i] = "sent"]
  /\ UNCHANGED <<store, payload, ids, signature, prevSignature,
                 fetched, reply>>

Step(i) ==
  \/ FetchFails(i)
  \/ FetchSucceeds(i)
  \/ ReadFails(i)
  \/ ReadAndCompare(i)
  \/ WriteFails(i)
  \/ WriteSucceeds(i)
  \/ PublishFails(i)
  \/ PublishSucceeds(i)

Next ==
  \E i \in Runs : StartRun(i) \/ StartRunNoKey(i) \/ Step(i)

\* Scheduled invocations that may overlap.
Spec == Init /\ [][Next]_vars

\* No other invocation is in flight.
Quiet == \A j \in Runs : pc[j] \in {"idle", "done"}

SeqNext ==
  \E i \in Runs :
    \/ Quiet /\ StartRun(i)
    \/ Quiet /\ StartRunNoKey(i)
    \/ Step(i)

\* Scheduled invocations that run one after the other.
SeqSpec == Init /\ [][SeqNext]_vars

(* --------------------------- the proxies ------------------------------- *)

\* The table with the 404 line missing.
HttpsErrorCodeWithout404(status) ==
  IF status = 429 THEN "resource-exhausted"
  ELSE IF status = 403 THEN "permission-denied"
  ELSE IF status = 401 THEN "unauthenticated"
  ELSE IF status = 400 THEN "invalid-argument"
  ELSE "internal"

\* The status-to-code table of the callable.
HttpsErrorCode(status) ==
  IF status = 429 THEN "resource-exhausted"
  ELSE IF status = 404 THEN "not-found"
  ELSE IF status = 403 THEN "permission-denied"
  ELSE IF status = 401 THEN "unauthenticated"
  ELSE IF status = 400 THEN "invalid-argument"
  ELSE "internal"

\* if (error.status): a missing status and 0 are falsy.
HasStatus(err) == "status" \in DOMAIN err /\ err.status # 0

\* The callable's answer when no key resolves.
CallableNoKey ==
  [outcome |-> "HttpsError", code |-> "internal",
   message |-> "Backend misconfiguration", details |-> JsUndefined]

\* The callable's try/catch around fetchRiotRotation, given what fetch ends
\* with.
CallableAnswer(resp) ==
  LET r == FetchRiotRotation(resp) IN
    IF ~r.threw
    THEN [outcome |-> "returned", payload |-> r.payload]
    ELSE IF HasStatus(r)
    THEN [outcome |-> "HttpsError", code |-> HttpsErrorCode(r.status),
          message |-> "Upstream Riot API error",
          details |-> [status |-> r.status, rateInfo |-> r.rateInfo,
                       upstreamMessage |-> r.upstreamMessage]]
    ELSE [outcome |-> "HttpsError", code |-> "internal",
          message |-> "Failed to contact Riot API", details |-> JsUndefined]

\* The HTTP proxy's answers before any fetch.
HttpMethodNotAllowed ==
  [outcome |-> "response", status |-> 405, allow |-> "GET",
   body |-> [error |-> "Only GET is supported"]]

HttpNoKey ==
  [outcome |-> "response", status |-> 500,
   body |-> [error |-> "Backend misconfiguration"]]

\* The HTTP proxy's try/catch around fetch, given what fetch ends with.
HttpAnswer(resp) ==
  IF ~resp.completed
  THEN [outcome |-> "response", status |-> 500,
        body |-> [error |-> "Failed to contact Riot API"]]
  ELSE IF ~IsOk(resp.status)
  THEN [outcome |-> "response", status |-> resp.status,
        body |-> [error |-> "Upstream Riot API error", status |-> resp.status,
                  rateInfo |-> resp.rateInfo,
                  upstreamMessage |-> ExtractUpstreamMessage(resp.body)]]
  ELSE IF resp.body.json = "invalid"
  THEN [outcome |-> "response", status |-> 500,
        body |-> [error |-> "Failed to contact Riot API"]]
  ELSE [outcome |-> "response", status |-> 200, body |-> resp.body.value]

\* No proxy request is waiting for the upstream.
ProxyIdle == reply.phase = "answered"

\* A request reaches the callable: without a key it is answered at once,
\* with one the fetch is issued.
CallArrives ==
  /\ ProxyIdle
  /\ \E hasKey \in BOOLEAN :
       reply' = IF hasKey
                THEN [handler |-> "onCall", phase |-> "fetching"]
                ELSE [handler |-> "onCall", phase |-> "answered",
                      upstream |-> JsUndefined, answer |-> CallableNoKey]
  /\ UNCHANGED schedVars

\* The callable's fetch settles and the request is answered.
CallSettles ==
  /\ reply.handler = "onCall" /\ reply.phase = "fetching"
  /\ \E resp \in Responses :
       reply' = [handler |-> "onCall", phase |-> "answered",
                 upstream |-> resp, answer |-> CallableAnswer(resp)]
  /\ UNCHANGED schedVars

\* A request reaches the HTTP proxy: a method other than GET or a missing key
\* is answered at once, else the fetch is issued.
HttpArrives ==
  /\ ProxyIdle
  /\ \E method \in {"GET", "POST"}, hasKey \in BOOLEAN :
       reply' = IF method # "GET"
                THEN [handler |-> "onRequest", phase |-> "answered",
                      upstream |-> JsUndefined, answer |-> HttpMethodNotAllowed]
                ELSE IF ~hasKey
                THEN [handler |-> "onRequest", phase |-> "answered",
                      upstream |-> JsUndefined, answer |-> HttpNoKey]
                ELSE [handler |-> "onRequest", phase |-> "fetching"]
  /\ UNCHANGED schedVars

\* The HTTP proxy's fetch settles and the request is answered.
HttpSettles ==
  /\ reply.handler = "onRequest" /\ reply.phase = "fetching"
  /\ \E resp \in Responses :
       reply' = [handler |-> "onRequest", phase |-> "answered",
                 upstream |-> resp, answer |-> HttpAnswer(resp)]
  /\ UNCHANGED schedVars

ProxyNext == CallArrives \/ CallSettles \/ HttpArrives \/ HttpSettles

\* The store as a fresh deployment finds it.
ProxyInit == Init /\ store = NoDocument

\* Requests to the two proxies.
ProxySpec == ProxyInit /\ [][ProxyNext]_vars

(* ------------------------- helpers for the properties ------------------ *)

\* s is in ascending numeric order.
IsAscending(s) == \A a, b \in 1..Len(s) : a < b => s[a] <= s[b]

\* s and t hold the same elements the same number of times.
SameElements(s, t) ==
  /\ Len(s) = Len(t)
  /\ \A x \in {s[a] : a \in 1..Len(s)} \cup {t[a] : a \in 1..Len(t)} :
       Cardinality({a \in 1..Len(s) : s[a] = x})
         = Cardinality({a \in 1..Len(t) : t[a] = x})

RECURSIVE CommaJoined(_, _)
\* The text of s[k..], elements separated by commas.
CommaJoined(s, k) ==
  IF k > Len(s) THEN ""
  ELSE IF k = Len(s) THEN ToString(s[k])
  ELSE ToString(s[k]) \o "," \o CommaJoined(s, k + 1)

RECURSIVE TotalOver(_, _)
\* Sum of f[i] over the runs in S.
TotalOver(f, S) ==
  IF S = {} THEN 0
  ELSE LET i == CHOOSE x \in S : TRUE IN f[i] + TotalOver(f, S \ {i})

SetsOkTotal == TotalOver([i \in Runs |-> tally[i].setsOk], Runs)

SendsTotal == TotalOver([i \in Runs |-> tally[i].sends], Runs)

\* Run i got a payload out of fetchRiotRotation and read the store.
HasRead(i) == tally[i].reads = 1

\* The signature run i read differs from the one it computed.
Differs(i) == prevSignature[i] # signature[i]

\* Run i has made no set call and no send, and is not about to.
NoOp(i) ==
  /\ tally[i].sets = 0
  /\ tally[i].sends = 0
  /\ pc[i] \notin {"write", "publish"}

\* Run i fetched an object payload.
GotPayload(i) == fetched[i] = "ok" /\ payload[i] \in ObjectPayloads

\* Every run after i that got a payload got the payload of run i.
UpstreamUnchangedSince(i) ==
  \A k \in Runs : k > i /\ fetched[k] = "ok" /\ pc[k] # "fetch"
                    => payload[k] = payload[i]

(* ------------------------------- C1 ------------------------------------ *)

\* C1, as stated: a run that fetched and read the store has, once it is over,
\* written the store and sent the notification if and only if the signature
\* it read differs from the one it computed.
C1_WritePublishIffDiffers ==
  \A i \in Runs :
    pc[i] = "done" /\ HasRead(i)
      => ((tally[i].setsOk = 1 /\ tally[i].sends = 1) <=> Differs(i))

\* C1, amended: a run that fetched and read the store makes its one set call
\* if and only if the signature it read differs from the one it computed, and
\* makes its one send if and only if that set call succeeded; when the two
\* signatures are equal it writes and sends nothing.  A missing document reads
\* as null, which differs from every computed signature, the empty string
\* included, so such a run always makes the set call.
C1_ChangeDetection ==
  \A i \in Runs :
    HasRead(i) =>
      /\ signature[i].type = "string"
      /\ Differs(i) => pc[i] = "write" \/ tally[i].sets = 1
      /\ ~Differs(i) => NoOp(i) /\ pc[i] = "done" /\ logged[i] = "unchanged"
      /\ pc[i] = "write" => tally[i].sets = 0
      /\ pc[i] = "publish" => tally[i].setsOk = 1 /\ tally[i].sends = 0
      /\ pc[i] = "done" => (tally[i].sends = 1 <=> tally[i].setsOk = 1)
      /\ prevSignature[i] = JsNull => Differs(i)

\* A run read a missing document, computed the empty signature, wrote and
\* sent.
C1_Witness ==
  \E i \in Runs :
    /\ pc[i] = "done" /\ HasRead(i)
    /\ prevSignature[i] = JsNull
    /\ signature[i] = JsString("")
    /\ tally[i].setsOk = 1 /\ tally[i].sendsOk = 1

(* ------------------------------- C2 ------------------------------------ *)

\* C2, as stated: of two successive runs that got the same payload and read
\* the store, the second makes no set call and no send, and the first wrote
\* and sent once when the signature it read differed.
C2_TwiceInSuccession ==
  \A i \in Runs :
    (i + 1 \in Runs /\ pc[i] = "done" /\ pc[i + 1] = "done"
       /\ HasRead(i) /\ HasRead(i + 1) /\ payload[i] = payload[i + 1])
      => /\ NoOp(i + 1)
         /\ Differs(i) => tally[i].setsOk = 1 /\ tally[i].sends = 1

\* Run i ended with the store holding its signature: it wrote, or found the
\* signature unchanged.
Settled(i) ==
  /\ pc[i] = "done"
  /\ GotPayload(i)
  /\ tally[i].setsOk = 1 \/ logged[i] = "unchanged"

\* C2, amended: with runs one after the other, no run makes more than one set
\* call or more than one send; and once a run has written the store, or found
\* the signature unchanged, every later run is a no-op (no set call, no send,
\* the store still holding that signature) as long as the upstream payload
\* stays the same.  A run whose fetch, read or write failed promises nothing
\* about the next one.
C2_Idempotent ==
  /\ \A i \in Runs : tally[i].sets <= 1 /\ tally[i].sends <= 1
  /\ \A i \in Runs :
       Settled(i) /\ UpstreamUnchangedSince(i)
         => /\ store.exists /\ store.signature = signature[i]
            /\ \A k \in Runs : k > i => NoOp(k)

\* A run wrote and sent, and the next run got the same payload and found it
\* unchanged.
C2_Witness ==
  \E i \in Runs :
    /\ i + 1 \in Runs
    /\ tally[i].setsOk = 1 /\ tally[i].sendsOk = 1 /\ pc[i] = "done"
    /\ pc[i + 1] = "done" /\ payload[i + 1] = payload[i]
    /\ logged[i + 1] = "unchanged"

(* ------------------------------- C3 ------------------------------------ *)

\* C3: whenever the document exists, its signature is the comma-joined text
\* of its freeChampionIds, freeChampionIds is ascending, and signature,
\* freeChampionIds and rawResponse all derive from the one payload kept in
\* rawResponse.
C3_RecordConsistent ==
  store.exists =>
    /\ store.signature = JsString(CommaJoined(store.freeChampionIds, 1))
    /\ IsAscending(store.freeChampionIds)
    /\ store.rawResponse \in ObjectPayloads
    /\ SameElements(store.freeChampionIds, ExtractIds(store.rawResponse))
    /\ DOMAIN store
         = {"exists", "signature", "freeChampionIds", "rawResponse", "updatedAt"}

\* Two runs have written; the document holds the payload [10, 9], stored as
\* [9, 10].
C3_Witness ==
  /\ store.exists
  /\ SetsOkTotal >= 2
  /\ store.rawResponse.freeChampionIds = JsArray(<<10, 9>>)
  /\ store.freeChampionIds = <<9, 10>>

(* ------------------------------- C4 ------------------------------------ *)

\* The upstream call of the answered callable request failed.
CallFailed ==
  /\ reply.handler = "onCall"
  /\ reply.phase = "answered"
  /\ "completed" \in DOMAIN reply.upstream
  /\ \/ ~reply.upstream.completed
     \/ ~IsOk(reply.upstream.status)

\* C4: the callable answers every upstream failure with an HttpsError whose
\* code is invalid-argument for 400, unauthenticated for 401,
\* permission-denied for 403, not-found for 404, resource-exhausted for 429,
\* and internal for every other status and for a call that never completed.
C4_ErrorMapping ==
  CallFailed =>
    /\ reply.answer.outcome = "HttpsError"
    /\ IF ~reply.upstream.completed
       THEN reply.answer.code = "internal"
       ELSE LET s == reply.upstream.status IN
         /\ s = 400 => reply.answer.code = "invalid-argument"
         /\ s = 401 => reply.answer.code = "unauthenticated"
         /\ s = 403 => reply.answer.code = "permission-denied"
         /\ s = 404 => reply.answer.code = "not-found"
         /\ s = 429 => reply.answer.code = "resource-exhausted"
         /\ s \notin {400, 401, 403, 404, 429} => reply.answer.code = "internal"
         /\ reply.answer.details.status = s

\* The callable answered an upstream 404.
C4_Witness ==
  /\ CallFailed
  /\ reply.upstream.completed
  /\ reply.upstream.status = 404
  /\ reply.answer.code = "not-found"

(* ------------------------------- C5 ------------------------------------ *)

FetchFailed(i) == fetched[i] \in {"http-error", "network-error"}

\* C5: the step in which a run's fetch fails ends the run and leaves the
\* document and the sent notifications as they were; such a run has made no
\* store read, no set call and no send.
C5_FetchFailureMutatesNothing ==
  [][\A i \in Runs :
       /\ (pc[i] = "fetch" /\ FetchFailed(i)')
            => pc'[i] = "done" /\ store' = store /\ sent' = sent
       /\ FetchFailed(i)' => pc'[i] = "done" /\ tally'[i] = NoTally]_vars

\* A run's fetch failed while a document was stored.
C5_Witness ==
  \E i \in Runs :
    /\ fetched[i] = "http-error"
    /\ pc[i] = "done"
    /\ store.exists
    /\ SetsOkTotal >= 1

(* ------------------------------- C6 ------------------------------------ *)

\* C6: a run sends only after its own set call succeeded, a run whose set
\* call failed is over and has sent nothing, and the sends never outnumber
\* the successful set calls.
C6_PublishAfterWrite ==
  /\ \A i \in Runs :
       /\ tally[i].sends <= tally[i].setsOk
       /\ pc[i] = "publish" => tally[i].setsOk = 1
       /\ (tally[i].sets = 1 /\ tally[i].setsOk = 0)
            => pc[i] = "done" /\ tally[i].sends = 0
  /\ SendsTotal <= SetsOkTotal
  /\ sent <= SetsOkTotal

\* One run's set call failed, another run wrote and sent.
C6_Witness ==
  \E i, j \in Runs :
    /\ tally[i].sets = 1 /\ tally[i].setsOk = 0 /\ pc[i] = "done"
    /\ tally[j].setsOk = 1 /\ tally[j].sendsOk = 1

(* ------------------------------- C7 ------------------------------------ *)

\* Run i wrote the store and its send failed.
PublishFailed(i) == tally[i].sends = 1 /\ tally[i].sendsOk = 0

\* C7: with runs one after the other, a run whose send failed after its write
\* is over after that one send, and as long as the upstream payload stays the
\* same the document remains the record it wrote and every later run is a
\* no-op.
C7_PublishFailureKeepsWrite ==
  \A i \in Runs :
    PublishFailed(i) =>
      /\ pc[i] = "done"
      /\ tally[i].setsOk = 1
      /\ UpstreamUnchangedSince(i)
           => /\ store.exists
              /\ store.signature = signature[i]
              /\ store.rawResponse = payload[i]
              /\ \A k \in Runs : k > i => NoOp(k)

\* A run's send failed, and the next run got the same payload and found it
\* unchanged.
C7_Witness ==
  \E i \in Runs :
    /\ i + 1 \in Runs
    /\ PublishFailed(i)
    /\ pc[i + 1] = "done" /\ payload[i + 1] = payload[i]
    /\ logged[i + 1] = "unchanged"
    /\ sent = 0

(* ------------------------------- C8 ------------------------------------ *)

\* C8: the decision taken at the read is never revisited: a run that read a
\* differing signature and ended without an error has written the document
\* and sent, whatever other runs wrote in between.  Two overlapping runs can
\* therefore both write and both send for one change (C8_Witness).
C8_DecisionNotRevisited ==
  \A i \in Runs :
    (pc[i] = "done" /\ HasRead(i) /\ Differs(i) /\ logged[i] # "error")
      => tally[i].setsOk = 1 /\ tally[i].sendsOk = 1 /\ logged[i] = "sent"

\* Two runs got the same payload, read the same stale signature, and both
\* wrote and sent.
C8_Witness ==
  \E i, j \in Runs :
    /\ i # j
    /\ payload[i] = payload[j]
    /\ HasRead(i) /\ HasRead(j)
    /\ prevSignature[i] = prevSignature[j]
    /\ prevSignature[i].type = "string"
    /\ tally[i].setsOk = 1 /\ tally[j].setsOk = 1
    /\ tally[i].sendsOk = 1 /\ tally[j].sendsOk = 1
    /\ sent = 2

(* ------------------------------- C9 ------------------------------------ *)

\* C9: the upstreamMessage of an answered proxy request whose upstream call
\* ended with a non-2xx status is at most 2000 characters long.
C9_MessageAtMostLimit ==
  (/\ reply.phase = "answered"
   /\ "completed" \in DOMAIN reply.upstream
   /\ reply.upstream.completed
   /\ ~IsOk(reply.upstream.status))
    => IF reply.handler = "onCall"
       THEN reply.answer.details.upstreamMessage.length <= UpstreamMessageLimit
       ELSE reply.answer.body.upstreamMessage.length <= UpstreamMessageLimit

(* ------------------------------- C10 ----------------------------------- *)

\* The id list of run i's payload is a reordering of the stored ids.
ReorderingOfStored(i) ==
  /\ store.exists
  /\ GotPayload(i)
  /\ SameElements(store.freeChampionIds, ExtractIds(payload[i]))

\* C10: a run computes the signature every other run computed from the same
\* ids in any order, which is also the stored signature when its id list is a
\* reordering of the stored ids; and a run that reads the store while its
\* payload's id list is a reordering of the stored ids ends there: no set
\* call, no send, the document as it was.
C10_OrderInvariant ==
  [][\A i \in Runs :
       (pc[i] = "fetch" /\ GotPayload(i)')
         => /\ \A j \in Runs :
                 (GotPayload(j)
                    /\ SameElements(ExtractIds(payload'[i]), ExtractIds(payload[j])))
                   => signature'[i] = signature[j]
            /\ ReorderingOfStored(i)'
                 => signature'[i] = store.signature]_vars
  /\
  [][\A i \in Runs :
       (pc[i] = "read" /\ HasRead(i)' /\ ReorderingOfStored(i))
         => /\ pc'[i] = "done"
            /\ logged'[i] = "unchanged"
            /\ NoOp(i)'
            /\ store' = store
            /\ sent' = sent]_vars

\* A run got [10, 9] while the document held another payload with the ids
\* [9, 10], and found the rotation unchanged.
C10_Witness ==
  \E i \in Runs :
    /\ logged[i] = "unchanged"
    /\ payload[i].freeChampionIds = JsArray(<<10, 9>>)
    /\ store.exists
    /\ store.freeChampionIds = <<9, 10>>
    /\ store.rawResponse # payload[i]

====
